---- MODULE Spec2Model ----
(***************************************************************************)
(* Verification model of the ARER audio/visual codec front end:             *)
(*   - codecStatistic.py   StatisticMain (statistics collector)             *)
(*   - codecTest.py        TestMain (test / inference driver)               *)
(*   - encoder.py          VISURAL_RES_NET1/2, EncoderBlock, Encoder        *)
(* Each component is one record-valued variable; each has its own           *)
(* specification (SpecStat, SpecTest, SpecEnc, SpecBlock, SpecVis).         *)
(***************************************************************************)
EXTENDS Integers, Sequences, FiniteSets, TLC

VARIABLES stat, test, enc, blk, vis

vars == <<stat, test, enc, blk, vis>>

(***************************************************************************)
(* Bounds of the model                                                      *)
(***************************************************************************)
MaxN == 2
MaxCodeLen == 2
CodeDim == 1
MaxB == 2
MaxImg == 2
MaxStride == 3
MaxT == 6

(***************************************************************************)
(* Generic helpers                                                          *)
(***************************************************************************)
NonEmptySeqsUpTo(S, n) == UNION { [1..k -> S] : k \in 1..n }

RECURSIVE SumSeq(_)
SumSeq(s) == IF s = <<>> THEN 0 ELSE Head(s) + SumSeq(Tail(s))

(***************************************************************************)
(* Model types and the call protocol of the encoder                         *)
(***************************************************************************)
SupportedTypes == {"symAudioDec", "symAudioDecUniv"}

ModelTypes == SupportedTypes \cup {"HiFiGAN"}

\* Encoder.forward(self, x, mi, ci): the positional parameters after self.
ForwardParams == <<"x", "mi", "ci">>

\* A positional call binds only when it supplies every required parameter.
CallBinds(nargs) == nargs = Len(ForwardParams)

\* self.analyzer.encoder(x): number of positional arguments passed.
audio_analysis_nargs == 1

\* self.encoder.encoder(x) in TestMain.encode.
encode_nargs == 1

(***************************************************************************)
(* sklearn StandardScaler as used by StatisticMain.run.                     *)
(* A scaler keeps, per channel, the number of samples seen and (in exact    *)
(* arithmetic) the running sum and sum of squares behind mean_ and var_.    *)
(***************************************************************************)
Channels == 1..CodeDim

CodeVals == {0, 1}

CodeRows == [Channels -> CodeVals]

CodeSeqs == NonEmptySeqsUpTo(CodeRows, MaxCodeLen)

\* An utterance, as far as the statistics go, is the pair of code sequences
\* the analyzer yields for it.
Utterances == [speech : CodeSeqs, rir : CodeSeqs]

StandardScaler == [n |-> 0, sum |-> [c \in Channels |-> 0], sumsq |-> [c \in Channels |-> 0]]

RECURSIVE ColSum(_, _)
ColSum(rows, c) == IF rows = <<>> THEN 0 ELSE Head(rows)[c] + ColSum(Tail(rows), c)

RECURSIVE ColSumSq(_, _)
ColSumSq(rows, c) ==
    IF rows = <<>> THEN 0 ELSE Head(rows)[c] * Head(rows)[c] + ColSumSq(Tail(rows), c)

partial_fit(s, rows) ==
    [n |-> s.n + Len(rows),
     sum |-> [c \in Channels |-> s.sum[c] + ColSum(rows, c)],
     sumsq |-> [c \in Channels |-> s.sumsq[c] + ColSumSq(rows, c)]]

\* mean_ and scale_ exist only on a fitted scaler.
HasMean_always(s) == TRUE

HasMean(s) == s.n > 0

\* mean_[c] as the fraction num/den.
mean_(s) == [c \in Channels |-> [num |-> s.sum[c], den |-> s.n]]

\* var_[c] = E[x^2] - E[x]^2 as the fraction num/den.
var_(s) == [c \in Channels |-> [num |-> s.n * s.sumsq[c] - s.sum[c] * s.sum[c], den |-> s.n * s.n]]

\* scale_[c]: sqrt(var_[c]), with a zero variance replaced by 1.0
\* (sklearn _handle_zeros_in_scale).  Kept as the square of the scale.
scale_(s) == [c \in Channels |->
                IF var_(s)[c].num = 0 THEN [num |-> 1, den |-> 1] ELSE var_(s)[c]]

\* np.stack([mean_, scale_], axis=0): a (2, C) array.
stack_stats(s) == <<mean_(s), scale_(s)>>

Shape2(arr) == <<Len(arr), Cardinality(DOMAIN arr[1])>>

(***************************************************************************)
(* codecStatistic.py: StatisticMain driven by main()                        *)
(***************************************************************************)
StatIdle ==
    [pc |-> "idle", err |-> "none", raisedAt |-> "none", model_type |-> "symAudioDec",
     n |-> 0, seen |-> <<>>, idx |-> 0, scalers |-> <<>>, files |-> <<>>,
     encoderCalls |-> 0, partialFits |-> 0, steps |-> <<>>]

\* StatisticMain.__init__: config read, model_type taken from the analyzer's
\* config, output directories created (no file written).  n is the number of
\* audio files the dataset will list.
StatisticMain(mt, n) == [StatIdle EXCEPT !.pc = "constructed", !.model_type = mt, !.n = n]

StatRaise(s, e, where) == [s EXCEPT !.pc = "error", !.err = e, !.raisedAt = where]

\* The calls main() has made so far, in order.
StatStep(s, name) == [s EXCEPT !.steps = Append(@, name)]

\* The analyzer's encoder is reached through a positional call: it returns
\* the utterance's codes when the call binds, and raises TypeError otherwise.
audio_analysis(u) ==
    IF CallBinds(audio_analysis_nargs)
    THEN [ok |-> TRUE, zq_speech |-> u.speech, zq_rir |-> u.rir]
    ELSE [ok |-> FALSE, zq_speech |-> <<>>, zq_rir |-> <<>>]

np_save(s, path, arr) == [s EXCEPT !.files = Append(@, [path |-> path, arr |-> arr])]

Stat_load_dataset ==
    /\ stat.pc = "constructed"
    /\ stat' = [StatStep(stat, "load_dataset") EXCEPT !.pc = "dataset_loaded"]
    /\ UNCHANGED <<test, enc, blk, vis>>

Stat_load_analyzer_lenient ==
    /\ stat.pc = "dataset_loaded"
    /\ stat' = [StatStep(stat, "load_analyzer") EXCEPT !.pc = "analyzer_loaded"]
    /\ UNCHANGED <<test, enc, blk, vis>>

Stat_load_analyzer ==
    /\ stat.pc = "dataset_loaded"
    /\ stat' = IF stat.model_type \in SupportedTypes
               THEN [StatStep(stat, "load_analyzer") EXCEPT !.pc = "analyzer_loaded"]
               ELSE StatRaise(StatStep(stat, "load_analyzer"), "NotImplementedError", "load_analyzer")
    /\ UNCHANGED <<test, enc, blk, vis>>

\* run, lines 117-119: the two estimators are created before the loop.
Stat_run_begin ==
    /\ stat.pc = "analyzer_loaded"
    /\ stat' = [StatStep(stat, "run") EXCEPT !.pc = "running", !.idx = 0,
                            !.scalers = <<StandardScaler, StandardScaler>>]
    /\ UNCHANGED <<test, enc, blk, vis>>

\* run, lines 121-124: one iteration of the loop over the dataset: the next
\* file is read (u), analysed and folded into both estimators.
Stat_run_utterance ==
    /\ stat.pc = "running"
    /\ stat.idx < stat.n
    /\ \E u \in Utterances :
       LET r == audio_analysis(u)
           called == [stat EXCEPT !.encoderCalls = @ + 1, !.seen = Append(@, u)]
       IN stat' = IF ~r.ok
                  THEN StatRaise(called, "TypeError", "audio_analysis")
                  ELSE [called EXCEPT !.idx = @ + 1,
                                      !.partialFits = @ + 2,
                                      !.scalers = <<partial_fit(@[1], r.zq_speech),
                                                    partial_fit(@[2], r.zq_rir)>>]
    /\ UNCHANGED <<test, enc, blk, vis>>

\* run, lines 125-139: stack and save the speech statistics, then the RIR
\* statistics, then log the number of utterances (idx of the loop).
Stat_run_finish ==
    /\ stat.pc = "running"
    /\ stat.idx = stat.n
    /\ LET s1 == np_save(stat, "stats_speech", stack_stats(stat.scalers[1]))
           s2 == np_save(s1, "stats_rir", stack_stats(stat.scalers[2]))
       IN stat' = IF ~HasMean(stat.scalers[1])
                  THEN StatRaise(stat, "AttributeError", "run")
                  ELSE IF ~HasMean(stat.scalers[2])
                  THEN StatRaise(s1, "AttributeError", "run")
                  ELSE IF stat.n = 0
                  THEN StatRaise(s2, "UnboundLocalError", "run")
                  ELSE [s2 EXCEPT !.pc = "done"]
    /\ UNCHANGED <<test, enc, blk, vis>>

(***************************************************************************)
(* codecTest.py: TestMain driven by main()                                  *)
(***************************************************************************)
TestIdle ==
    [pc |-> "idle", err |-> "none", raisedAt |-> "none", asserts |-> TRUE,
     encoder_type |-> "symAudioDec", decoder_type |-> "symAudioDec",
     multi_channel |-> FALSE, n |-> 0, idx |-> 0, outdir |-> FALSE,
     outputs |-> <<>>, encoderCalls |-> 0, decodes |-> 0, steps |-> <<>>]

\* TestMain.__init__: encoder_type / decoder_type from the two checkpoint
\* configs, multi_channel from the encoder's input_channels.  asserts is
\* Python's __debug__ (assert statements are evaluated unless run with -O).
TestMain(dbg, et, dt, mc, n) ==
    [TestIdle EXCEPT !.pc = "constructed", !.asserts = dbg, !.encoder_type = et,
                     !.decoder_type = dt, !.multi_channel = mc, !.n = n]

TestRaise(t, e, where) == [t EXCEPT !.pc = "error", !.err = e, !.raisedAt = where]

TestStep(t, name) == [t EXCEPT !.steps = Append(@, name)]

\* Names bound in load_dataset before the assert of line 53 is evaluated.
load_dataset_names == {"self", "subset", "subset_num", "audio_rs_dir", "audio_material_dir", "audio_image_dir"}

\* TestMain.load_dataset: the assert reads data_path.
Test_load_dataset ==
    /\ test.pc = "constructed"
    /\ test' = IF test.asserts /\ "data_path" \notin load_dataset_names
               THEN TestRaise(TestStep(test, "load_dataset"), "NameError", "load_dataset")
               ELSE [TestStep(test, "load_dataset") EXCEPT !.pc = "dataset_loaded"]
    /\ UNCHANGED <<stat, enc, blk, vis>>

Test_load_encoder ==
    /\ test.pc = "dataset_loaded"
    /\ test' = IF test.encoder_type \in SupportedTypes
               THEN [TestStep(test, "load_encoder") EXCEPT !.pc = "encoder_loaded"]
               ELSE TestRaise(TestStep(test, "load_encoder"), "NotImplementedError", "load_encoder")
    /\ UNCHANGED <<stat, enc, blk, vis>>

Test_load_decoder ==
    /\ test.pc = "encoder_loaded"
    /\ test' = IF test.decoder_type \in SupportedTypes
               THEN [TestStep(test, "load_decoder") EXCEPT !.pc = "decoder_loaded"]
               ELSE TestRaise(TestStep(test, "load_decoder"), "NotImplementedError", "load_decoder")
    /\ UNCHANGED <<stat, enc, blk, vis>>

Test_initial_folder ==
    /\ test.pc = "decoder_loaded"
    /\ test' = [TestStep(test, "initial_folder") EXCEPT !.pc = "folder_made", !.outdir = TRUE]
    /\ UNCHANGED <<stat, enc, blk, vis>>

\* TestGEN.run is entered: the loop over the utterances starts.
Test_run_begin ==
    /\ test.pc = "folder_made"
    /\ test' = [TestStep(test, "run") EXCEPT !.pc = "running", !.idx = 0]
    /\ UNCHANGED <<stat, enc, blk, vis>>

\* TestMain.encode: the encoder call, then projector and quantizer of each
\* branch.  A code is the list of stages that produced it from utterance u.
Test_encode(u) ==
    IF CallBinds(encode_nargs)
    THEN [ok |-> TRUE,
          zq_speech |-> <<"encoder.speech", "projector_speech", "quantizer_speech">>,
          zq_rir |-> <<"encoder.rir", "projector_rir", "quantizer_rir">>]
    ELSE [ok |-> FALSE, zq_speech |-> <<>>, zq_rir |-> <<>>]

\* TestMain.decode: each branch's decoder applied to that branch's code.
Test_decode(zq_speech, zq_rir) ==
    [y_speech |-> Append(zq_speech, "decoder_speech"), y_rir |-> Append(zq_rir, "decoder_rir")]

\* TestGEN.run, one utterance: encode, decode, write both reconstructions.
Test_run_utterance ==
    /\ test.pc = "running"
    /\ test.idx < test.n
    /\ LET u == test.idx + 1
           r == Test_encode(u)
           called == [test EXCEPT !.encoderCalls = @ + 1]
           y == Test_decode(r.zq_speech, r.zq_rir)
       IN test' = IF ~r.ok
                  THEN TestRaise(called, "TypeError", "encode")
                  ELSE [called EXCEPT !.idx = @ + 1, !.decodes = @ + 1,
                                      !.outputs = @ \o << [utt |-> u, branch |-> "speech", y |-> y.y_speech],
                                                         [utt |-> u, branch |-> "rir", y |-> y.y_rir] >>]
    /\ UNCHANGED <<stat, enc, blk, vis>>

Test_run_finish ==
    /\ test.pc = "running"
    /\ test.idx = test.n
    /\ test' = [test EXCEPT !.pc = "done"]
    /\ UNCHANGED <<stat, enc, blk, vis>>

(***************************************************************************)
(* encoder.py: tensors                                                      *)
(* A shape is the sequence of a tensor's dimensions.  A value is named by   *)
(* the input it was computed from and the layers applied to it.             *)
(***************************************************************************)
\* torch convolution / pooling arithmetic along one axis:
\* floor((n + 2*padding - kernel) / stride) + 1.
ConvOut(n, kernel, stride, padding) == ((n + 2 * padding - kernel) \div stride) + 1

\* Tensor.squeeze(): every dimension of size 1 is removed.
SqueezeAll(shape) == SelectSeq(shape, LAMBDA d : d # 1)

\* Tensor.squeeze(-1): the last dimension is removed when its size is 1.
Squeeze(shape) ==
    IF Len(shape) > 0 /\ shape[Len(shape)] = 1 THEN SubSeq(shape, 1, Len(shape) - 1) ELSE shape

\* One evaluation of a sub-layer: which one, and through which entry point.
Call(layer, idx, via) == [layer |-> layer, idx |-> idx, via |-> via]

RECURSIVE Prod(_)
Prod(shape) == IF shape = <<>> THEN 1 ELSE Head(shape) * Prod(Tail(shape))

(***************************************************************************)
(* encoder.py: VISURAL_RES_NET1 / VISURAL_RES_NET2                          *)
(***************************************************************************)
\* Spatial size after conv1 (7x7, stride 2, padding 3), the ResNet-18 max
\* pool (3x3, stride 2, padding 1) and layer1..layer4 (stride 1, 2, 2, 2).
BackboneSpatial(n) ==
    LET c1 == ConvOut(n, 7, 2, 3)
        mp == ConvOut(c1, 3, 2, 1)
        l2 == ConvOut(mp, 3, 2, 1)
        l3 == ConvOut(l2, 3, 2, 1)
    IN ConvOut(l3, 3, 2, 1)

\* self.feature_extraction(inputs): conv1, bn1, relu, maxpool, layer1..4 and
\* the adaptive average pool to 1x1.  conv1 wants 3 input channels; a batch
\* norm in training mode refuses a single value per channel.
feature_extraction(training, shape) ==
    IF Len(shape) # 4 \/ shape[2] # 3 THEN [err |-> "RuntimeError", shape |-> <<>>]
    ELSE IF training /\ shape[1] * BackboneSpatial(shape[3]) * BackboneSpatial(shape[4]) = 1
    THEN [err |-> "ValueError", shape |-> <<>>]
    ELSE [err |-> "none", shape |-> <<shape[1], 512, 1, 1>>]

\* self.predictor: Linear(512, 512) on the last dimension.
predictor(shape) ==
    IF Len(shape) = 0 \/ shape[Len(shape)] # 512 THEN [err |-> "RuntimeError", shape |-> <<>>]
    ELSE [err |-> "none", shape |-> shape]

\* pred.reshape(shape[0], 512, int(shape[1]/512))
reshape_pred(shape) ==
    IF Len(shape) < 2 THEN [err |-> "IndexError", shape |-> <<>>]
    ELSE IF Prod(shape) # shape[1] * 512 * (shape[2] \div 512)
    THEN [err |-> "RuntimeError", shape |-> <<>>]
    ELSE [err |-> "none", shape |-> <<shape[1], 512, shape[2] \div 512>>]

\* torch.cat((pred, pred, pred, pred), 2): the copies along the time axis.
tile_pred(pred) == <<pred, pred, pred, pred>>

NoTensor == [err |-> "none", shape |-> <<>>, slices |-> <<>>]

\* VISURAL_RES_NET1.forward: img is the image batch it is given.
VISURAL_RES_NET1_forward(training, img) ==
    LET f == feature_extraction(training, <<img.B, img.C, img.H, img.W>>)
        a == Squeeze(Squeeze(f.shape))
        p == predictor(a)
        r == reshape_pred(p.shape)
        pred == [len |-> r.shape[3], val |-> [of |-> img.id, by |-> << Call("visual_res_net1", 0, "forward") >>]]
        tiles == tile_pred(pred)
    IN IF f.err # "none" THEN [NoTensor EXCEPT !.err = f.err]
       ELSE IF p.err # "none" THEN [NoTensor EXCEPT !.err = p.err]
       ELSE IF r.err # "none" THEN [NoTensor EXCEPT !.err = r.err]
       ELSE [err |-> "none",
             shape |-> <<r.shape[1], r.shape[2], SumSeq([i \in 1..Len(tiles) |-> tiles[i].len])>>,
             slices |-> tiles]

\* VISURAL_RES_NET2.forward.
VISURAL_RES_NET2_forward(training, img) ==
    LET f == feature_extraction(training, <<img.B, img.C, img.H, img.W>>)
        a == Squeeze(Squeeze(f.shape))
        p == predictor(a)
        r == reshape_pred(p.shape)
        pred == [len |-> r.shape[3], val |-> [of |-> img.id, by |-> << Call("visual_res_net2", 0, "forward") >>]]
        tiles == tile_pred(pred)
    IN IF f.err # "none" THEN [NoTensor EXCEPT !.err = f.err]
       ELSE IF p.err # "none" THEN [NoTensor EXCEPT !.err = p.err]
       ELSE IF r.err # "none" THEN [NoTensor EXCEPT !.err = r.err]
       ELSE [err |-> "none",
             shape |-> <<r.shape[1], r.shape[2], SumSeq([i \in 1..Len(tiles) |-> tiles[i].len])>>,
             slices |-> tiles]

\* bn1 of the backbone folds the batch into its running statistics when the
\* module is in training mode and the batch reaches it with more than one
\* value per channel.
bn1_updates(training, img) ==
    training /\ img.C = 3 /\ img.B * ConvOut(img.H, 7, 2, 3) * ConvOut(img.W, 7, 2, 3) > 1

ImgSizes == {1} \cup {32 * k : k \in 1..MaxImg}

\* Image batches (B, C, H, W); id names the argument they are passed as.
Images(ids) == [id : ids, B : 1..MaxB, C : {1, 3}, H : ImgSizes, W : ImgSizes]

NoImage == [id |-> "inputs", B |-> 1, C |-> 3, H |-> 1, W |-> 1]

VisIdle ==
    [pc |-> "idle", training |-> TRUE, net |-> "none", img |-> NoImage,
     was_training |-> TRUE, out |-> NoTensor,
     updated |-> {}]

\* The two extractors as constructed: torch modules start in training mode.
VisNew == [VisIdle EXCEPT !.pc = "ready"]

Vis_forward1 ==
    /\ vis.pc # "idle"
    /\ \E img \in Images({"inputs"}) :
          vis' = [vis EXCEPT !.pc = "called", !.net = "visual_res_net1", !.img = img,
                                !.was_training = vis.training,
                                !.out = VISURAL_RES_NET1_forward(vis.training, img),
                                !.updated =
                                    IF bn1_updates(vis.training, img)
                                    THEN @ \cup {"visual_res_net1"} ELSE @]
    /\ UNCHANGED <<stat, test, enc, blk>>

Vis_forward2 ==
    /\ vis.pc # "idle"
    /\ \E img \in Images({"inputs"}) :
          vis' = [vis EXCEPT !.pc = "called", !.net = "visual_res_net2", !.img = img,
                                !.was_training = vis.training,
                                !.out = VISURAL_RES_NET2_forward(vis.training, img),
                                !.updated =
                                    IF bn1_updates(vis.training, img)
                                    THEN @ \cup {"visual_res_net2"} ELSE @]
    /\ UNCHANGED <<stat, test, enc, blk>>

\* Module.eval(): the extractors leave training mode.
Vis_eval ==
    /\ vis.pc # "idle"
    /\ vis.training
    /\ vis' = [vis EXCEPT !.training = FALSE]
    /\ UNCHANGED <<stat, test, enc, blk>>

(***************************************************************************)
(* Layers of layers.conv_layer, models.autoencoder.modules.residual_unit    *)
(* and models.utils, as the design document describes them.                 *)
(***************************************************************************)
Modes == {"causal", "noncausal"}

\* check_mode(mode, method): the streaming entry points exist in causal mode
\* only; any other mode is a mode-mismatch error.
check_mode(mode, method) == mode = "causal"

\* Total padding of CausalConv1d (all of it on the left) and NonCausalConv1d
\* (split over both sides): the "matching" padding dilation * (kernel - 1).
Conv1d_padding(kernel_size, dilation) == dilation * (kernel_size - 1)

\* Output time length of CausalConv1d / NonCausalConv1d.
Conv1d_out_len(T, kernel_size, stride, dilation) ==
    ((T + Conv1d_padding(kernel_size, dilation) - dilation * (kernel_size - 1) - 1) \div stride) + 1

\* A tensor (B, C, T) of the audio path: its time axis is a sequence of
\* segments, each with a length and the value it holds.
Tensor(B, C, T, of) == [B |-> B, C |-> C, segs |-> << [len |-> T, val |-> [of |-> of, by |-> <<>>]] >>]

TimeLen(t) == SumSeq([i \in 1..Len(t.segs) |-> t.segs[i].len])

\* The result of evaluating layers: an error or a tensor, and the layer
\* calls made so far.
Ok(x, trace) == [err |-> "none", x |-> x, trace |-> trace]

Fail(e, x, trace) == [err |-> e, x |-> x, trace |-> trace]

\* x through a layer that maps in_channels to out_channels and T to newT.
Through(r, call, in_channels, out_channels, newT) ==
    IF r.err # "none" THEN r
    ELSE IF r.x.C # in_channels \/ TimeLen(r.x) < 1
    THEN Fail("RuntimeError", r.x, Append(r.trace, call))
    ELSE Ok([B |-> r.x.B, C |-> out_channels,
             segs |-> << [len |-> newT,
                          val |-> [of |-> r.x.segs[1].val.of,
                                   by |-> Append(r.x.segs[1].val.by, call)]] >>],
            Append(r.trace, call))

\* CausalResidualUnit / NonCausalResidualUnit: shape-preserving.
ResidualUnit_apply(u, r, call) == Through(r, call, u.channels, u.channels, TimeLen(r.x))

\* CausalConv1d / NonCausalConv1d.
Conv1d_apply(c, r, call) ==
    Through(r, call, c.in_channels, c.out_channels,
            Conv1d_out_len(TimeLen(r.x), c.kernel_size, c.stride, 1))

(***************************************************************************)
(* encoder.py: EncoderBlock                                                 *)
(***************************************************************************)
\* EncoderBlock.__init__, lines 116-120: one residual unit per dilation, of
\* the variant the mode selects.
EncoderBlock_res_units(in_channels, dilations, mode) ==
    [i \in 1..Len(dilations) |->
        [kind |-> "res_unit", variant |-> mode, channels |-> in_channels, dilation |-> dilations[i]]]

\* The strided convolution built without its stride argument (stride 1).
EncoderBlock_conv_unstrided(in_channels, out_channels, stride, mode) ==
    [kind |-> "conv", variant |-> mode, in_channels |-> in_channels,
     out_channels |-> out_channels, kernel_size |-> 2 * stride, stride |-> 1]

\* EncoderBlock.__init__, lines 122-128: the downsampling convolution.
EncoderBlock_conv(in_channels, out_channels, stride, mode) ==
    [kind |-> "conv", variant |-> mode, in_channels |-> in_channels,
     out_channels |-> out_channels, kernel_size |-> 2 * stride, stride |-> stride]

NoBlock == [ok |-> FALSE, mode |-> "none", res_units |-> <<>>, num_res |-> 0,
            conv |-> EncoderBlock_conv(0, 0, 0, "none")]

\* EncoderBlock.__init__: ok is FALSE when the mode is rejected
\* (NotImplementedError).
EncoderBlock(in_channels, out_channels, stride, dilations, mode) ==
    IF mode \notin Modes THEN [NoBlock EXCEPT !.mode = mode]
    ELSE [ok |-> TRUE, mode |-> mode,
          res_units |-> EncoderBlock_res_units(in_channels, dilations, mode),
          num_res |-> Len(dilations),
          conv |-> EncoderBlock_conv(in_channels, out_channels, stride, mode)]

RECURSIVE EncoderBlock_units(_, _, _, _)
EncoderBlock_units(b, r, idx, via) ==
    IF idx > b.num_res THEN r
    ELSE EncoderBlock_units(b, ResidualUnit_apply(b.res_units[idx], r, Call("res_units", idx, via)),
                            idx + 1, via)

\* EncoderBlock.forward
EncoderBlock_forward(b, x) ==
    Conv1d_apply(b.conv, EncoderBlock_units(b, Ok(x, <<>>), 1, "forward"), Call("conv", 0, "forward"))

\* The streaming path entered without the mode check: a non-causal unit
\* refuses its own inference call.
EncoderBlock_inference_unchecked(b, x) ==
    IF b.mode # "causal"
    THEN Fail("ModeMismatch", x, << Call("res_units", 1, "inference") >>)
    ELSE Conv1d_apply(b.conv, EncoderBlock_units(b, Ok(x, <<>>), 1, "inference"),
                      Call("conv", 0, "inference"))

\* EncoderBlock.inference
EncoderBlock_inference(b, x) ==
    IF ~check_mode(b.mode, "inference") THEN Fail("ModeMismatch", x, <<>>)
    ELSE Conv1d_apply(b.conv, EncoderBlock_units(b, Ok(x, <<>>), 1, "inference"),
                      Call("conv", 0, "inference"))

BlockInputs == { Tensor(B, C, T, "x") : B \in 1..MaxB, C \in {2, 4}, T \in 1..MaxT }

NoCall == [method |-> "none", x |-> Tensor(1, 1, 1, "x"), out |-> Ok(Tensor(1, 1, 1, "x"), <<>>)]

BlkIdle == [pc |-> "idle", block |-> NoBlock, stride |-> 0, streamed |-> FALSE, call |-> NoCall]

\* A block as constructed (or its construction refused).
BlkNew(stride, dilations, mode) ==
    LET b == EncoderBlock(2, 4, stride, dilations, mode)
    IN [BlkIdle EXCEPT !.pc = IF b.ok THEN "ready" ELSE "error", !.block = b, !.stride = stride]

Blk_forward ==
    /\ blk.pc \in {"ready", "called"}
    /\ \E x \in BlockInputs :
          blk' = [blk EXCEPT !.pc = "called",
                             !.call = [method |-> "forward", x |-> x,
                                       out |-> EncoderBlock_forward(blk.block, x)]]
    /\ UNCHANGED <<stat, test, enc, vis>>

\* inference: on success the causal sub-layers keep the chunk's tail as
\* their streaming state.
Blk_inference ==
    /\ blk.pc \in {"ready", "called"}
    /\ \E x \in BlockInputs :
          LET r == EncoderBlock_inference(blk.block, x)
          IN blk' = [blk EXCEPT !.pc = "called",
                                !.streamed = @ \/ (\E i \in 1..Len(r.trace) : r.trace[i].via = "inference"),
                                !.call = [method |-> "inference", x |-> x, out |-> r]]
    /\ UNCHANGED <<stat, test, enc, vis>>

(***************************************************************************)
(* encoder.py: Encoder                                                      *)
(***************************************************************************)
\* torch.nn.Conv1d(in, out, kernel_size, stride, padding): mode-independent.
TorchConv1d(in_channels, out_channels, kernel_size, stride, padding) ==
    [kind |-> "conv", variant |-> "plain", in_channels |-> in_channels,
     out_channels |-> out_channels, kernel_size |-> kernel_size, stride |-> stride,
     padding |-> padding]

LeakyReLU == [kind |-> "activation", variant |-> "plain", in_channels |-> 0, out_channels |-> 0,
              kernel_size |-> 0, stride |-> 0, padding |-> 0]

BatchNorm1d(num_features) ==
    [kind |-> "batchnorm", variant |-> "plain", in_channels |-> num_features,
     out_channels |-> num_features, kernel_size |-> 0, stride |-> 0, padding |-> 0]

\* Encoder.__init__, lines 192-203 (in_channels is encode_channels there).
encode_RIR(input_channels, in_channels) ==
    << TorchConv1d(input_channels, 16 * in_channels, 14401, 225, 7200),
       LeakyReLU,
       TorchConv1d(16 * in_channels, 24 * in_channels, 41, 2, 20),
       BatchNorm1d(24 * in_channels),
       LeakyReLU,
       TorchConv1d(24 * in_channels, 32 * in_channels, 41, 2, 20),
       BatchNorm1d(32 * in_channels),
       LeakyReLU >>

\* Encoder.__init__, lines 205-213.
encode_RIR_s(in_channels) ==
    << TorchConv1d(in_channels, 16 * in_channels, 9600, 459, 4800),
       LeakyReLU,
       TorchConv1d(16 * in_channels, 32 * in_channels, 41, 2, 20),
       BatchNorm1d(32 * in_channels),
       LeakyReLU >>

\* Encoder.__init__, lines 170-182: the Conv1d class the mode selected.
Encoder_Conv1d(in_channels, out_channels, kernel_size, mode) ==
    [kind |-> "conv", variant |-> mode, in_channels |-> in_channels,
     out_channels |-> out_channels, kernel_size |-> kernel_size, stride |-> 1]

\* The block list built without passing the encoder's mode on (the blocks
\* then take EncoderBlock's default, 'causal').
Encoder_blocks_default_mode(first_in, encode_channels, ratios, strides, mode) ==
    [i \in 1..Len(strides) |->
        EncoderBlock(IF i = 1 THEN first_in ELSE encode_channels * ratios[i - 1],
                     encode_channels * ratios[i], strides[i], <<1, 3, 9>>, "causal")]

\* Encoder.__init__, lines 215-219 and 225-229: one EncoderBlock per stride,
\* each taking the previous block's out_channels and the encoder's mode.
Encoder_blocks(first_in, encode_channels, ratios, strides, mode) ==
    [i \in 1..Len(strides) |->
        EncoderBlock(IF i = 1 THEN first_in ELSE encode_channels * ratios[i - 1],
                     encode_channels * ratios[i], strides[i], <<1, 3, 9>>, mode)]

\* The constructor's arguments.  "default" leaves every keyword at its
\* default; the others are set by a checkpoint's generator_params.
DefaultConfig ==
    [input_channels |-> 1, encode_channels |-> 16,
     combine_channel_ratios |-> <<2, 4>>,
     seperate_channel_ratios_speech |-> <<8, 16, 32>>,
     seperate_channel_ratios_rir |-> <<8, 8, 16, 32>>,
     combine_strides |-> <<2, 2>>,
     seperate_strides_speech |-> <<3, 5, 5>>,
     seperate_strides_rir |-> <<2, 3, 5, 5, 5>>,
     kernel_size |-> 7]

EncoderConfigs ==
    { DefaultConfig,
      [DefaultConfig EXCEPT !.seperate_channel_ratios_rir = <<8, 8, 16, 32, 32>>],
      [DefaultConfig EXCEPT !.seperate_channel_ratios_rir = <<8, 8, 16, 32, 32>>,
                            !.combine_channel_ratios = <<2, 1>>],
      [DefaultConfig EXCEPT !.seperate_channel_ratios_rir = <<8, 8, 16, 32, 32>>,
                            !.combine_channel_ratios = <<2, 1>>,
                            !.encode_channels = 8] }

NoEncoder ==
    [ok |-> FALSE, err |-> "none", mode |-> "none", conv |-> Encoder_Conv1d(0, 0, 0, "none"),
     conv_combine |-> Encoder_Conv1d(0, 0, 0, "none"), encode_RIR |-> <<>>, encode_RIR_s |-> <<>>,
     combine_conv_blocks |-> <<>>, seperate_conv_blocks_1 |-> <<>>, out_channels |-> 0]

\* Encoder.__init__.  asserts is Python's __debug__.
Encoder(cfg, mode, asserts) ==
    IF /\ asserts
       /\ \/ Len(cfg.combine_channel_ratios) # Len(cfg.combine_strides)
          \/ Len(cfg.seperate_channel_ratios_speech) # Len(cfg.seperate_strides_speech)
          \/ Len(cfg.seperate_channel_ratios_rir) # Len(cfg.seperate_strides_rir)
    THEN [NoEncoder EXCEPT !.err = "AssertionError", !.mode = mode]
    ELSE IF mode \notin Modes
    THEN [NoEncoder EXCEPT !.err = "NotImplementedError", !.mode = mode]
    ELSE
      LET ec == cfg.encode_channels
          nc == Len(cfg.combine_strides)
          seperate_in == ec * cfg.combine_channel_ratios[nc]
          ns == Len(cfg.seperate_strides_speech)
      IN [ok |-> TRUE, err |-> "none", mode |-> mode,
          conv |-> Encoder_Conv1d(cfg.input_channels, ec, cfg.kernel_size, mode),
          conv_combine |-> Encoder_Conv1d(cfg.input_channels, cfg.input_channels, 3, mode),
          encode_RIR |-> encode_RIR(cfg.input_channels, ec),
          encode_RIR_s |-> encode_RIR_s(ec),
          combine_conv_blocks |->
              Encoder_blocks(ec, ec, cfg.combine_channel_ratios, cfg.combine_strides, mode),
          seperate_conv_blocks_1 |->
              Encoder_blocks(seperate_in, ec, cfg.seperate_channel_ratios_speech,
                             cfg.seperate_strides_speech, mode),
          out_channels |-> ec * cfg.seperate_channel_ratios_speech[ns]]

\* The convolutions and residual units an encoder owns, each with the
\* attribute that holds it and its variant.
BlockLayers(owner, blocks) ==
    UNION { { [owner |-> owner, kind |-> "conv", variant |-> blocks[i].conv.variant] }
            \cup { [owner |-> owner, kind |-> "res_unit", variant |-> blocks[i].res_units[j].variant] :
                     j \in 1..Len(blocks[i].res_units) } : i \in 1..Len(blocks) }

SeqLayers(owner, mods) ==
    { [owner |-> owner, kind |-> mods[i].kind, variant |-> mods[i].variant] : i \in 1..Len(mods) }

SubLayers(e) ==
    { [owner |-> "conv", kind |-> "conv", variant |-> e.conv.variant],
      [owner |-> "conv_combine", kind |-> "conv", variant |-> e.conv_combine.variant] }
    \cup SeqLayers("encode_RIR", e.encode_RIR)
    \cup SeqLayers("encode_RIR_s", e.encode_RIR_s)
    \cup BlockLayers("combine_conv_blocks", e.combine_conv_blocks)
    \cup BlockLayers("seperate_conv_blocks_1", e.seperate_conv_blocks_1)

\* torch.nn.Conv1d applied: the kernel must fit the padded input.
TorchConv1d_apply(c, r, call) ==
    IF r.err = "none" /\ TimeLen(r.x) + 2 * c.padding < c.kernel_size
    THEN Fail("RuntimeError", r.x, Append(r.trace, call))
    ELSE Through(r, call, c.in_channels, c.out_channels,
                 ConvOut(TimeLen(r.x), c.kernel_size, c.stride, c.padding))

\* torch.nn.BatchNorm1d applied: in training mode it refuses a single value
\* per channel.
BatchNorm1d_apply(c, r, call, training) ==
    IF r.err = "none" /\ training /\ r.x.C = c.in_channels /\ r.x.B * TimeLen(r.x) = 1
    THEN Fail("ValueError", r.x, Append(r.trace, call))
    ELSE Through(r, call, c.in_channels, c.out_channels, TimeLen(r.x))

LeakyReLU_apply(r, call) ==
    IF r.err # "none" THEN r ELSE Through(r, call, r.x.C, r.x.C, TimeLen(r.x))

\* torch.nn.Sequential: the modules in order.
RECURSIVE Sequential_apply(_, _, _, _, _)
Sequential_apply(name, mods, r, idx, training) ==
    IF idx > Len(mods) THEN r
    ELSE LET m == mods[idx]
             call == Call(name, idx, "forward")
             next == IF m.kind = "conv" THEN TorchConv1d_apply(m, r, call)
                     ELSE IF m.kind = "batchnorm" THEN BatchNorm1d_apply(m, r, call, training)
                     ELSE LeakyReLU_apply(r, call)
         IN Sequential_apply(name, mods, next, idx + 1, training)

\* A later stage of the same call: the tensor x, after everything r did.
Feed(r, x) == [err |-> r.err, x |-> x, trace |-> r.trace]

\* The call was made and returned.
Completed(r, call) ==
    \E i \in 1..Len(r.trace) : r.trace[i] = call /\ (r.err = "none" \/ i < Len(r.trace))

\* self.seperate_conv_blocks_1[i](x_speech)
Block_apply(b, r, call) ==
    IF r.err # "none" THEN r
    ELSE LET o == EncoderBlock_forward(b, r.x)
         IN IF o.err # "none" THEN Fail(o.err, r.x, Append(r.trace, call))
            ELSE Through(r, call, r.x.C, o.x.C, TimeLen(o.x))

RECURSIVE Blocks_apply(_, _, _, _)
Blocks_apply(name, blocks, r, i) ==
    IF i > Len(blocks) THEN r
    ELSE Blocks_apply(name, blocks, Block_apply(blocks[i], r, Call(name, i, "forward")), i + 1)

\* self.visual_res_net1(mi) / self.visual_res_net2(ci) as a stage of the call.
Visual_apply(o, r, call) ==
    IF r.err # "none" THEN r
    ELSE IF o.err # "none" THEN Fail(o.err, r.x, Append(r.trace, call))
    ELSE Ok([B |-> o.shape[1], C |-> o.shape[2], segs |-> o.slices], Append(r.trace, call))

\* torch.cat((a, b), 2): batch and channel sizes must agree.
Cat2(r, b, call) ==
    IF r.err # "none" THEN r
    ELSE IF r.x.B # b.B \/ r.x.C # b.C THEN Fail("RuntimeError", r.x, Append(r.trace, call))
    ELSE Ok([B |-> r.x.B, C |-> r.x.C, segs |-> r.x.segs \o b.segs], Append(r.trace, call))

\* The speech branch fused with the material embedding instead.
FuseSpeech_mi(r, x_speech, mi_code, ci_code) == Cat2(Feed(r, x_speech), mi_code, Call("cat", 1, "forward"))

\* line 274: x_speech_AV = torch.cat((x_speech, ci_code), 2)
FuseSpeech(r, x_speech, mi_code, ci_code) == Cat2(Feed(r, x_speech), ci_code, Call("cat", 1, "forward"))

\* line 275: x_rir_AV = torch.cat((x_rir, mi_code), 2)
FuseRir(r, x_rir, mi_code, ci_code) == Cat2(Feed(r, x_rir), mi_code, Call("cat", 2, "forward"))

\* Batch norms that fold every batch into their running statistics, whatever
\* the module's mode.
Updated_always(training, s) ==
    { n \in {"visual_res_net1"} : bn1_updates(TRUE, s.mi) }
    \cup { n \in {"visual_res_net2"} :
             Completed(s, Call("visual_res_net1", 0, "forward")) /\ bn1_updates(TRUE, s.ci) }
    \cup { n \in {"encode_RIR"} : Completed(s, Call("encode_RIR", 4, "forward")) }

\* The batch-norm running statistics a call in training mode has updated.
Updated(training, s) ==
    { n \in {"visual_res_net1"} : bn1_updates(training, s.mi) }
    \cup { n \in {"visual_res_net2"} :
             Completed(s, Call("visual_res_net1", 0, "forward")) /\ bn1_updates(training, s.ci) }
    \cup { n \in {"encode_RIR"} : training /\ Completed(s, Call("encode_RIR", 4, "forward")) }

NoResult == [err |-> "none", trace |-> <<>>, out |-> <<>>, updated |-> {}]

Unbound == [B |-> 0, C |-> 0, segs |-> <<>>]

\* The local variables of forward / encode at its first statement.
Locals(x, mi, ci) ==
    [err |-> "none", trace |-> <<>>, x |-> x, mi |-> mi, ci |-> ci,
     mi_code |-> Unbound, ci_code |-> Unbound, x_combine |-> Unbound, x_speech |-> Unbound,
     x_rir |-> Unbound, x_speech_AV |-> Unbound, x_rir_AV |-> Unbound]

\* name = <layer call>: the local is bound when the call returns.
Bind(s, name, r) ==
    IF r.err # "none" THEN [s EXCEPT !.err = r.err, !.trace = r.trace]
    ELSE [s EXCEPT !.trace = r.trace, ![name] = r.x]

\* mi_code = self.visual_res_net1(mi)
Stmt_mi_code(training, s) ==
    Bind(s, "mi_code", Visual_apply(VISURAL_RES_NET1_forward(training, s.mi), Feed(s, s.x),
                                    Call("visual_res_net1", 0, "forward")))

\* ci_code = self.visual_res_net2(ci)
Stmt_ci_code(training, s) ==
    Bind(s, "ci_code", Visual_apply(VISURAL_RES_NET2_forward(training, s.ci), Feed(s, s.x),
                                    Call("visual_res_net2", 0, "forward")))

\* x_combine = self.conv_combine(x)
Stmt_x_combine(e, s) ==
    Bind(s, "x_combine", Conv1d_apply(e.conv_combine, Feed(s, s.x), Call("conv_combine", 0, "forward")))

\* x_speech = self.conv(x_combine)
Stmt_x_speech(e, s) ==
    Bind(s, "x_speech", Conv1d_apply(e.conv, Feed(s, s.x_combine), Call("conv", 0, "forward")))

\* for i in range(self.seperate_num_blocks_speech): x_speech = self.seperate_conv_blocks_1[i](x_speech)
Stmt_blocks(e, s) ==
    Bind(s, "x_speech", Blocks_apply("seperate_conv_blocks_1", e.seperate_conv_blocks_1,
                                     Feed(s, s.x_speech), 1))

\* x_rir = x_combine; x_rir = self.encode_RIR(x_rir)
Stmt_x_rir(e, training, s) ==
    Bind(s, "x_rir", Sequential_apply("encode_RIR", e.encode_RIR, Feed(s, s.x_combine), 1, training))

Stmt_x_speech_AV(s) ==
    Bind(s, "x_speech_AV", FuseSpeech(s, s.x_speech, s.mi_code, s.ci_code))

Stmt_x_rir_AV(s) ==
    Bind(s, "x_rir_AV", FuseRir(s, s.x_rir, s.mi_code, s.ci_code))

\* return x_speech_AV, x_rir_AV
Return(training, s) ==
    [err |-> s.err, trace |-> s.trace,
     out |-> IF s.err = "none" THEN <<s.x_speech_AV, s.x_rir_AV>> ELSE <<>>,
     updated |-> Updated(training, s)]

\* Encoder.forward(x, mi, ci)
Encoder_forward(e, training, x, mi, ci) ==
    Return(training,
        Stmt_x_rir_AV(Stmt_x_speech_AV(Stmt_x_rir(e, training, Stmt_blocks(e, Stmt_x_speech(e,
            Stmt_x_combine(e, Stmt_ci_code(training, Stmt_mi_code(training, Locals(x, mi, ci))))))))))

\* x_speech = self.encode_RIR_s(x_speech): the statement forward and encode
\* carry as a comment only.
Stmt_x_speech_rir_s(e, training, s) ==
    Bind(s, "x_speech", Sequential_apply("encode_RIR_s", e.encode_RIR_s, Feed(s, s.x_speech), 1, training))

\* encode with the speech branch also sent through encode_RIR_s.
Encoder_encode_rir_s(e, training, x, mi, ci) ==
    IF ~check_mode(e.mode, "encode") THEN [NoResult EXCEPT !.err = "ModeMismatch"]
    ELSE Return(training,
        Stmt_x_rir_AV(Stmt_x_speech_AV(Stmt_x_rir(e, training, Stmt_x_speech_rir_s(e, training,
            Stmt_blocks(e, Stmt_x_speech(e, Stmt_x_combine(e, Stmt_ci_code(training,
                Stmt_mi_code(training, Locals(x, mi, ci)))))))))))

\* Encoder.encode(x, mi, ci)
Encoder_encode(e, training, x, mi, ci) ==
    IF ~check_mode(e.mode, "encode") THEN [NoResult EXCEPT !.err = "ModeMismatch"]
    ELSE Return(training,
        Stmt_x_rir_AV(Stmt_x_speech_AV(Stmt_x_rir(e, training, Stmt_blocks(e, Stmt_x_speech(e,
            Stmt_x_combine(e, Stmt_ci_code(training, Stmt_mi_code(training, Locals(x, mi, ci))))))))))

EncTimes == {75, 16000}

\* The arguments of a call: the audio x and the two image batches.
EncInputs ==
    { [x |-> Tensor(B, 1, T, "x"),
       mi |-> [id |-> "mi", B |-> Bi, C |-> 3, H |-> S, W |-> S],
       ci |-> [id |-> "ci", B |-> Bi, C |-> 3, H |-> S, W |-> S]] :
         B \in 1..MaxB, Bi \in {1, MaxB}, T \in EncTimes, S \in {1, 32 * MaxImg} }

NoEncCall == [method |-> "none", args |-> CHOOSE a \in EncInputs : TRUE, was_training |-> TRUE,
              out |-> NoResult]

EncIdle == [pc |-> "idle", encoder |-> NoEncoder, training |-> TRUE, updated |-> {}, call |-> NoEncCall]

\* An encoder as constructed (or its construction refused); torch modules
\* start in training mode.
EncNew(cfg, mode, asserts) ==
    LET e == Encoder(cfg, mode, asserts)
    IN [EncIdle EXCEPT !.pc = IF e.ok THEN "ready" ELSE "error", !.encoder = e]

Enc_forward ==
    /\ enc.pc \in {"ready", "called"}
    /\ \E a \in EncInputs :
       \E r \in { Encoder_forward(enc.encoder, enc.training, a.x, a.mi, a.ci) } :
             enc' = [enc EXCEPT !.pc = "called", !.updated = @ \cup r.updated,
                                !.call = [method |-> "forward", args |-> a,
                                          was_training |-> enc.training, out |-> r]]
    /\ UNCHANGED <<stat, test, blk, vis>>

Enc_encode ==
    /\ enc.pc \in {"ready", "called"}
    /\ \E a \in EncInputs :
       \E r \in { Encoder_encode(enc.encoder, enc.training, a.x, a.mi, a.ci) } :
             enc' = [enc EXCEPT !.pc = "called", !.updated = @ \cup r.updated,
                                !.call = [method |-> "encode", args |-> a,
                                          was_training |-> enc.training, out |-> r]]
    /\ UNCHANGED <<stat, test, blk, vis>>

\* Module.eval(), as the tools call it after loading the checkpoint.
Enc_eval ==
    /\ enc.pc \in {"ready", "called"}
    /\ enc.training
    /\ enc' = [enc EXCEPT !.training = FALSE]
    /\ UNCHANGED <<stat, test, blk, vis>>


InitStat ==
    /\ \E mt \in ModelTypes, n \in 0..MaxN : stat = StatisticMain(mt, n)
    /\ test = TestIdle
    /\ enc = EncIdle
    /\ blk = BlkIdle
    /\ vis = VisIdle

NextStat ==
    \/ Stat_load_dataset
    \/ Stat_load_analyzer
    \/ Stat_run_begin
    \/ Stat_run_utterance
    \/ Stat_run_finish

SpecStat == InitStat /\ [][NextStat]_vars

InitTest ==
    /\ \E dbg \in BOOLEAN, et \in ModelTypes, dt \in ModelTypes, mc \in BOOLEAN, n \in 0..MaxN :
          test = TestMain(dbg, et, dt, mc, n)
    /\ stat = StatIdle
    /\ enc = EncIdle
    /\ blk = BlkIdle
    /\ vis = VisIdle

InitVis ==
    /\ vis = VisNew
    /\ stat = StatIdle
    /\ test = TestIdle
    /\ enc = EncIdle
    /\ blk = BlkIdle

InitBlock ==
    /\ \E stride \in 1..MaxStride, dilations \in {<<1, 3, 9>>, <<1>>}, mode \in Modes \cup {"other"} :
          blk = BlkNew(stride, dilations, mode)
    /\ stat = StatIdle
    /\ test = TestIdle
    /\ enc = EncIdle
    /\ vis = VisIdle

NextBlock ==
    \/ Blk_forward
    \/ Blk_inference

SpecBlock == InitBlock /\ [][NextBlock]_vars

InitEnc ==
    /\ \E cfg \in EncoderConfigs, mode \in Modes \cup {"other"}, asserts \in BOOLEAN :
          enc = EncNew(cfg, mode, asserts)
    /\ stat = StatIdle
    /\ test = TestIdle
    /\ blk = BlkIdle
    /\ vis = VisIdle

NextEnc ==
    \/ Enc_forward
    \/ Enc_encode
    \/ Enc_eval

SpecEnc == InitEnc /\ [][NextEnc]_vars

NextVis ==
    \/ Vis_forward1
    \/ Vis_forward2
    \/ Vis_eval

SpecVis == InitVis /\ [][NextVis]_vars

\* The modules of encoder.py, each used on its own.
InitModules == InitEnc \/ InitBlock \/ InitVis

NextModules == NextEnc \/ NextBlock \/ NextVis

SpecModules == InitModules /\ [][NextModules]_vars

NextTest ==
    \/ Test_load_dataset
    \/ Test_load_encoder
    \/ Test_load_decoder
    \/ Test_initial_folder
    \/ Test_run_begin
    \/ Test_run_utterance
    \/ Test_run_finish

SpecTest == InitTest /\ [][NextTest]_vars

\* One process runs one of the two tools.
InitTools == InitStat \/ InitTest

NextTools == NextStat \/ NextTest

SpecTools == InitTools /\ [][NextTools]_vars

(***************************************************************************)
(* Claims about the two tools                                               *)
(***************************************************************************)
Terminal(pc) == pc \in {"done", "error"}

FracEq(a, b) == a.num * b.den = b.num * a.den

\* Mean and population variance of channel c over the rows, as fractions.
BatchMean(rows, c) == [num |-> ColSum(rows, c), den |-> Len(rows)]

BatchVar(rows, c) ==
    [num |-> Len(rows) * ColSumSq(rows, c) - ColSum(rows, c) * ColSum(rows, c),
     den |-> Len(rows) * Len(rows)]

RECURSIVE SpeechRows(_)
SpeechRows(us) == IF us = <<>> THEN <<>> ELSE Head(us).speech \o SpeechRows(Tail(us))

RECURSIVE RirRows(_)
RirRows(us) == IF us = <<>> THEN <<>> ELSE Head(us).rir \o RirRows(Tail(us))

\* arr is the (2, C) array holding the batch mean and the batch population
\* standard deviation (kept squared) of the rows.
IsBatchStats(arr, rows) ==
    /\ Shape2(arr) = <<2, CodeDim>>
    /\ \A c \in Channels :
          /\ FracEq(arr[1][c], BatchMean(rows, c))
          /\ FracEq(arr[2][c], BatchVar(rows, c))

\* C1: on a dataset of exactly one utterance with a supported analyzer, the
\* run of main ends without error, has folded exactly one utterance into each
\* of the two estimators and has written exactly the two files stats_speech
\* and stats_rir, each a (2, C) array.
C1_SingleFileRunWritesTwoStats ==
    (stat.n = 1 /\ stat.model_type \in SupportedTypes /\ Terminal(stat.pc)) =>
        /\ stat.pc = "done"
        /\ stat.partialFits = 2
        /\ Len(stat.files) = 2
        /\ stat.files[1].path = "stats_speech"
        /\ stat.files[2].path = "stats_rir"
        /\ \A i \in 1..2 : Shape2(stat.files[i].arr) = <<2, CodeDim>>

\* C2: on a dataset of zero utterances no statistics file is ever written,
\* the run never completes normally, and once run has been entered it ends
\* in an error raised by run itself.
C2_EmptyDatasetRaises ==
    (stat.pc # "idle" /\ stat.n = 0) =>
        /\ stat.files = <<>>
        /\ stat.pc # "done"
        /\ (stat.pc = "error" /\ stat.model_type \in SupportedTypes) => stat.raisedAt = "run"

C2_Witness ==
    /\ stat.n = 0
    /\ stat.pc = "error"
    /\ stat.raisedAt = "run"
    /\ stat.err = "AttributeError"
    /\ stat.files = <<>>

\* C4: for every dataset of N >= 1 utterances, in whatever order they are
\* read, the run stores for each channel the mean and the population standard
\* deviation of that channel over the concatenation of all utterances' codes.
C4_StoredStatsEqualBatchStats ==
    (stat.n >= 1 /\ stat.model_type \in SupportedTypes /\ Terminal(stat.pc)) =>
        /\ stat.pc = "done"
        /\ Len(stat.files) = 2
        /\ IsBatchStats(stat.files[1].arr, SpeechRows(stat.seen))
        /\ IsBatchStats(stat.files[2].arr, RirRows(stat.seen))

\* C9: with both model types supported, main of the test driver runs
\* load_dataset, load_encoder, load_decoder, initial_folder and run in that
\* order without error, and every utterance is encoded into a speech code and
\* a RIR code (encoder, projector, quantizer) that decode maps to the speech
\* output and the RIR output, each from its own branch's code only.
C9_TestMainRunsPipeline ==
    (/\ test.encoder_type \in SupportedTypes
     /\ test.decoder_type \in SupportedTypes
     /\ Terminal(test.pc)) =>
        /\ test.pc = "done"
        /\ test.steps = <<"load_dataset", "load_encoder", "load_decoder", "initial_folder", "run">>
        /\ test.encoderCalls = test.n
        /\ Len(test.outputs) = 2 * test.n
        /\ \A i \in 1..Len(test.outputs) :
              LET o == test.outputs[i]
              IN IF o.branch = "speech"
                 THEN o.y = <<"encoder.speech", "projector_speech", "quantizer_speech", "decoder_speech">>
                 ELSE o.y = <<"encoder.rir", "projector_rir", "quantizer_rir", "decoder_rir">>

NoRepeat(steps) == \A i, j \in 1..Len(steps) : steps[i] = steps[j] => i = j

\* C10: in both tools an unsupported model type ends the process in an error
\* raised by a load step, before any encoder call, partial_fit or decode and
\* before any statistics or audio output is written; no load step is run twice.
C10_ConfigErrorsFailFast ==
    /\ (stat.pc # "idle" /\ stat.model_type \notin SupportedTypes) =>
          /\ stat.encoderCalls = 0
          /\ stat.partialFits = 0
          /\ stat.files = <<>>
          /\ stat.seen = <<>>
          /\ stat.pc \in {"constructed", "dataset_loaded", "error"}
          /\ stat.pc = "error" => (stat.err = "NotImplementedError" /\ stat.raisedAt = "load_analyzer")
          /\ NoRepeat(stat.steps)
    /\ (test.pc # "idle" /\ (test.encoder_type \notin SupportedTypes \/ test.decoder_type \notin SupportedTypes)) =>
          /\ test.encoderCalls = 0
          /\ test.decodes = 0
          /\ test.outputs = <<>>
          /\ test.pc \in {"constructed", "dataset_loaded", "encoder_loaded", "error"}
          /\ test.pc = "error" => test.raisedAt \in {"load_dataset", "load_encoder", "load_decoder"}
          /\ NoRepeat(test.steps)

C10_Witness ==
    /\ stat.model_type \notin SupportedTypes
    /\ stat.n >= 1
    /\ stat.pc = "error"
    /\ stat.err = "NotImplementedError"
    /\ stat.steps = <<"load_dataset", "load_analyzer">>

(***************************************************************************)
(* Claims about encoder.py                                                  *)
(***************************************************************************)
\* The backbone accepts an image batch of 3 channels of any positive size; in
\* training mode its last batch norm needs more than one value per channel,
\* i.e. B * ceil(H/32) * ceil(W/32) > 1.
AboveBackboneMinimum(training, img) ==
    /\ img.C = 3
    /\ img.H >= 1
    /\ img.W >= 1
    /\ training => img.B * ((img.H + 31) \div 32) * ((img.W + 31) \div 32) > 1

\* C8: for every batch size B >= 1 and every image size the backbone
\* accepts, forward of either visual extractor on a (B, 3, H, W) input returns
\* a tensor of shape exactly (B, 512, 4) whose four time slices are identical
\* copies of the projected feature vector of that input.
C8_VisualEmbeddingTiled ==
    (vis.pc = "called" /\ AboveBackboneMinimum(vis.was_training, vis.img)) =>
        /\ vis.out.err = "none"
        /\ vis.out.shape = <<vis.img.B, 512, 4>>
        /\ Len(vis.out.slices) = 4
        /\ \A i \in 1..4 :
              /\ vis.out.slices[i] = vis.out.slices[1]
              /\ vis.out.slices[i].len = 1
              /\ vis.out.slices[i].val = [of |-> vis.img.id, by |-> << Call(vis.net, 0, "forward") >>]

C8_Witness ==
    /\ vis.pc = "called"
    /\ vis.net = "visual_res_net2"
    /\ vis.img.B = 1
    /\ vis.img.C = 3
    /\ vis.img.H = 1
    /\ vis.img.W = 32
    /\ ~vis.was_training
    /\ vis.out.err = "none"
    /\ vis.out.shape = <<1, 512, 4>>

\* C6: for every stride s >= 1, in both modes, EncoderBlock.forward maps an
\* input of time length T, a positive multiple of s, to an output of time
\* length exactly T / s (same batch, out_channels channels), every residual
\* unit and then the convolution having been evaluated.
C6_BlockDividesTimeByStride ==
    (/\ blk.pc = "called"
     /\ blk.call.method = "forward"
     /\ blk.call.x.C = blk.block.conv.in_channels
     /\ TimeLen(blk.call.x) % blk.stride = 0) =>
        /\ blk.call.out.err = "none"
        /\ TimeLen(blk.call.out.x) * blk.stride = TimeLen(blk.call.x)
        /\ blk.call.out.x.B = blk.call.x.B
        /\ blk.call.out.x.C = blk.block.conv.out_channels
        /\ Len(blk.call.out.trace) = blk.block.num_res + 1

C6_Witness ==
    /\ blk.pc = "called"
    /\ blk.call.method = "forward"
    /\ blk.block.mode = "noncausal"
    /\ blk.stride = 3
    /\ blk.block.num_res = 3
    /\ TimeLen(blk.call.x) = 6
    /\ blk.call.out.err = "none"
    /\ TimeLen(blk.call.out.x) = 2

\* C3: every call of the streaming entry point (EncoderBlock.inference,
\* Encoder.encode) of a component constructed with mode 'noncausal' ends in
\* a mode-mismatch error, whatever the input, and the error is raised before
\* any sub-layer or visual extractor is evaluated (no layer call is made, no
\* streaming state or running statistic is touched, nothing is returned).
C3_NonCausalRejectsStreaming ==
    /\ (blk.pc = "called" /\ blk.block.mode = "noncausal") =>
          /\ ~blk.streamed
          /\ blk.call.method = "inference" =>
                /\ blk.call.out.err = "ModeMismatch"
                /\ blk.call.out.trace = <<>>
    /\ (enc.pc = "called" /\ enc.encoder.mode = "noncausal" /\ enc.call.method = "encode") =>
          /\ enc.call.out.err = "ModeMismatch"
          /\ enc.call.out.trace = <<>>
          /\ enc.call.out.out = <<>>
          /\ enc.call.out.updated = {}

C3_Witness ==
    /\ enc.pc = "called"
    /\ enc.encoder.ok
    /\ enc.encoder.mode = "noncausal"
    /\ enc.call.method = "encode"
    /\ enc.call.was_training
    /\ enc.call.args.mi.H > 1
    /\ TimeLen(enc.call.args.x) = 16000
    /\ enc.call.out.err = "ModeMismatch"

ModeLayers(e) == { l \in SubLayers(e) : l.kind \in {"conv", "res_unit"} }

\* C5 as stated: Encoder.__init__ applies its mode to every convolution and
\* residual unit of the combine, speech and RIR paths (each is of the
\* variant the mode selects, none is mode-independent), and any other mode
\* string is rejected at construction.
C5_ModeAppliedToEverySubLayer ==
    enc.pc # "idle" =>
        IF enc.encoder.mode \in Modes
        THEN enc.encoder.ok => \A l \in ModeLayers(enc.encoder) : l.variant = enc.encoder.mode
        ELSE ~enc.encoder.ok

\* C5, amended: the mode selects the variant of conv, of conv_combine and of
\* every residual unit and convolution of the EncoderBlocks in
\* combine_conv_blocks and seperate_conv_blocks_1; the convolutions of the
\* RIR stack encode_RIR (and of encode_RIR_s) are plain torch Conv1d layers
\* in both modes; any other mode string is rejected at construction.
C5_ModeAppliedExceptRirStack ==
    enc.pc # "idle" =>
        IF enc.encoder.mode \in Modes
        THEN enc.encoder.ok =>
                \A l \in ModeLayers(enc.encoder) :
                    IF l.owner \in {"encode_RIR", "encode_RIR_s"}
                    THEN l.variant = "plain"
                    ELSE l.variant = enc.encoder.mode
        ELSE /\ ~enc.encoder.ok
             /\ enc.pc = "error"
             /\ enc.encoder.err \in {"AssertionError", "NotImplementedError"}

C5_Witness ==
    /\ enc.pc = "ready"
    /\ enc.encoder.ok
    /\ enc.encoder.mode = "noncausal"
    /\ [owner |-> "encode_RIR", kind |-> "conv", variant |-> "plain"] \in SubLayers(enc.encoder)
    /\ [owner |-> "seperate_conv_blocks_1", kind |-> "res_unit", variant |-> "noncausal"]
           \in SubLayers(enc.encoder)
    /\ [owner |-> "conv_combine", kind |-> "conv", variant |-> "noncausal"] \in SubLayers(enc.encoder)

\* The four time slices of a visual embedding: computed from the image batch
\* passed as `of`, by the extractor `net`.
IsEmbedding(segs, of, net) ==
    /\ Len(segs) = 4
    /\ \A i \in 1..4 :
          segs[i] = [len |-> 1, val |-> [of |-> of, by |-> << Call(net, 0, "forward") >>]]

Count(trace, call) == Cardinality({ i \in 1..Len(trace) : trace[i] = call })

\* C7: when Encoder.forward returns, it returns exactly two streams: the
\* first is the speech-branch output followed along the time axis by the
\* scene embedding (visual_res_net2 of ci), the second the RIR-branch output
\* followed by the material embedding (visual_res_net1 of mi); each stream is
\* its branch's time length plus 4 long, the speech stream holds nothing
\* computed from mi and the RIR stream nothing computed from ci, and both
\* branches start from the one conv_combine output of x.
C7_TwoStreamsFusedWithEmbeddings ==
    (enc.pc = "called" /\ enc.call.method = "forward" /\ enc.call.out.err = "none") =>
        LET o == enc.call.out.out
            speech == o[1].segs[1]
            rir == o[2].segs[1]
            blocks == enc.encoder.seperate_conv_blocks_1
        IN /\ Len(o) = 2
           /\ Len(o[1].segs) = 5 /\ Len(o[2].segs) = 5
           /\ IsEmbedding(SubSeq(o[1].segs, 2, 5), "ci", "visual_res_net2")
           /\ IsEmbedding(SubSeq(o[2].segs, 2, 5), "mi", "visual_res_net1")
           /\ TimeLen(o[1]) = speech.len + 4
           /\ TimeLen(o[2]) = rir.len + 4
           /\ \A i \in 1..5 : o[1].segs[i].val.of # "mi" /\ o[2].segs[i].val.of # "ci"
           /\ speech.val.of = "x" /\ rir.val.of = "x"
           /\ speech.val.by[1] = Call("conv_combine", 0, "forward")
           /\ rir.val.by[1] = Call("conv_combine", 0, "forward")
           /\ Count(enc.call.out.trace, Call("conv_combine", 0, "forward")) = 1
           /\ speech.val.by[Len(speech.val.by)] = Call("seperate_conv_blocks_1", Len(blocks), "forward")
           /\ rir.val.by[Len(rir.val.by)] = Call("encode_RIR", Len(enc.encoder.encode_RIR), "forward")
           /\ \A i \in 2..Len(rir.val.by) : rir.val.by[i].layer = "encode_RIR"
           /\ \A i \in 2..Len(speech.val.by) : speech.val.by[i].layer \in {"conv", "seperate_conv_blocks_1"}
           /\ o[1].B = enc.call.args.x.B /\ o[2].B = enc.call.args.x.B

C7_Witness ==
    /\ enc.pc = "called"
    /\ enc.call.method = "forward"
    /\ enc.call.out.err = "none"
    /\ enc.encoder.mode = "noncausal"
    /\ TimeLen(enc.call.args.x) = 16000
    /\ Len(enc.call.out.out) = 2
    /\ TimeLen(enc.call.out.out[1]) = 218
    /\ TimeLen(enc.call.out.out[2]) = 22
    /\ enc.call.out.out[1].segs[5].val.of = "ci"
    /\ enc.call.out.out[2].segs[5].val.of = "mi"

\* The layers of a Sequential that work in place (LeakyReLU(0.2, inplace=True)).
InplaceLayers(mods) == { i \in 1..Len(mods) : mods[i].kind = "activation" }

\* The running statistics a returned call must have updated in training mode.
BatchNormOwners == {"visual_res_net1", "visual_res_net2", "encode_RIR"}

\* C11 as stated: forward and encode have no side effect on the encoder:
\* after any sequence of calls every parameter and every buffer of the
\* encoder, those of the RIR stack included, is unchanged.
C11_CallsLeaveEncoderUnchanged ==
    enc.pc = "called" => enc.updated = {}

\* C11, amended: a call of forward or encode never changes a parameter, the
\* construction of the encoder or its mode flag, and never writes the
\* caller's x, mi, ci (every in-place activation works on the fresh output of
\* the layer before it); in eval mode it changes no buffer either; in
\* training mode it updates the running statistics of exactly the batch
\* norms it evaluates (all of them when the call returns).
C11_OnlyTrainingCallsUpdateBuffers ==
    [][ /\ enc'.encoder = enc.encoder
        /\ enc'.training # enc.training => (enc.training /\ enc'.call = enc.call /\ enc'.updated = enc.updated)
        /\ enc'.updated = enc.updated \cup enc'.call.out.updated
        /\ enc'.call.out.updated \subseteq BatchNormOwners
        /\ ~enc'.call.was_training => enc'.call.out.updated = {}
        /\ (enc'.call.was_training /\ enc'.call.method # "none" /\ enc'.call.out.err = "none")
              => enc'.call.out.updated = BatchNormOwners
        /\ \A i \in InplaceLayers(enc.encoder.encode_RIR) :
              i > 1 /\ enc.encoder.encode_RIR[i - 1].kind \in {"conv", "batchnorm"}
      ]_vars

C11_Witness ==
    /\ enc.pc = "called"
    /\ ~enc.training
    /\ ~enc.call.was_training
    /\ enc.call.method = "forward"
    /\ enc.call.out.err = "none"
    /\ enc.call.out.updated = {}
    /\ enc.updated = BatchNormOwners

\* Total number of code frames of the utterances read so far, per branch.
SpeechFrames(us) == SumSeq([i \in 1..Len(us) |-> Len(us[i].speech)])

RirFrames(us) == SumSeq([i \in 1..Len(us) |-> Len(us[i].rir)])

\* C12: within one run on a non-empty dataset the two estimators are created
\* once, before the first utterance, and every utterance read is folded into
\* each of them exactly once, in dataset order and without a reset (after k
\* utterances the sample count is the sum of the k code lengths); each of the
\* two files is written exactly once, only after the last utterance, as a
\* 2 x C array (row 0 the mean, row 1 the scale); a failed utterance leaves
\* no file.
C12_RunningStatisticsLifecycle ==
    (stat.n >= 1 /\ stat.pc \in {"running", "done", "error"} /\ stat.raisedAt # "load_analyzer") =>
        /\ Len(stat.scalers) = 2
        /\ stat.partialFits = 2 * Len(stat.seen)
        /\ stat.scalers[1].n = SpeechFrames(stat.seen)
        /\ stat.scalers[2].n = RirFrames(stat.seen)
        /\ stat.files # <<>> => Len(stat.seen) = stat.n
        /\ stat.pc = "done" =>
              /\ Len(stat.files) = 2
              /\ stat.files[1] = [path |-> "stats_speech", arr |-> stack_stats(stat.scalers[1])]
              /\ stat.files[2] = [path |-> "stats_rir", arr |-> stack_stats(stat.scalers[2])]
              /\ \A i \in 1..2 : Shape2(stat.files[i].arr) = <<2, CodeDim>>
        /\ (stat.pc = "error" /\ stat.raisedAt = "audio_analysis") => stat.files = <<>>

\* C13: for an encoder constructed in causal mode, encode(x, mi, ci) takes
\* the same three arguments as forward and returns what forward returns on
\* them: the same pair of latent streams (or the same error), reached through
\* the same sub-layer calls in the same order, each through the sub-layer's
\* one-shot forward path and none through an inference path, with the same
\* effect on the running statistics.
C13_CausalEncodeEqualsForward ==
    (enc.pc = "called" /\ enc.call.method = "encode" /\ enc.encoder.mode = "causal") =>
        /\ enc.call.out = Encoder_forward(enc.encoder, enc.call.was_training,
                                          enc.call.args.x, enc.call.args.mi, enc.call.args.ci)
        /\ \A i \in 1..Len(enc.call.out.trace) : enc.call.out.trace[i].via = "forward"
        /\ enc.call.out.err # "ModeMismatch"
        /\ enc.call.out.err = "none" =>
              /\ Len(enc.call.out.out) = 2
              /\ \A k \in 1..2 : \A i \in 1..Len(enc.call.out.out[k].segs) :
                    \A j \in 1..Len(enc.call.out.out[k].segs[i].val.by) :
                        enc.call.out.out[k].segs[i].val.by[j].via = "forward"

C13_Witness ==
    /\ enc.pc = "called"
    /\ enc.call.method = "encode"
    /\ enc.encoder.mode = "causal"
    /\ enc.call.out.err = "none"
    /\ TimeLen(enc.call.args.x) = 16000
    /\ Len(enc.call.out.out) = 2
    /\ TimeLen(enc.call.out.out[1]) = 218
    /\ Len(enc.call.out.trace) = 17

====
